---- MODULE Spec2Model ----
(***************************************************************************)
(* Model of the git_repository_file resource of terraform-provider-git:    *)
(* the lifecycle handlers Create / Read / Update / Delete of                *)
(* internal/provider/repository_file.go, the plan modifier                  *)
(* useStateIfUpdatesShouldBeIgnored, the existence probe FileExists and     *)
(* the session factory GetGitClient / getAuthOpts.                          *)
(*                                                                         *)
(* The remote repository is a map branch -> path -> entry.  A session is a  *)
(* fresh clone (a copy of one branch) in a fresh workspace; a push is       *)
(* rejected when the branch moved since the clone.  The retry envelope      *)
(* retry.RetryContext calls the whole closure again (clone included) after  *)
(* a retryable error, until the deadline elapses.  The deadline is that of  *)
(* the context the clone and the push wait on too: it can end a handler at  *)
(* any of its steps, also after the remote took its push.                   *)
(*                                                                         *)
(* The handlers call GetGitClient(ctx, branch); the GetGitClient of the     *)
(* provider file is declared without the branch.  The model follows both   *)
(* (the variable build), and a property is checked for both wherever they  *)
(* clone different branches.                                                *)
(***************************************************************************)
EXTENDS Integers, Sequences, FiniteSets, TLC

VARIABLES
    remote,     \* the remote repository: [Branches -> [Paths -> entry]]
    prd,        \* ProviderResourceData: url scheme, credentials, branch, ignore_updates
    config,     \* the declared configuration of each resource instance
    state,      \* the observed state (RepositoryFileResourceModel) of each instance
    private,    \* the private-state key "IgnoreUpdates" of each instance
    plan,       \* the inputs and the result of the last call of the plan modifier
    imported,   \* the attributes the last ImportState set in its response
    auth,       \* the inputs and the outcome of the last call of getAuthOpts alone
    tmp,        \* the directory of temporary files, where the workspaces are made
    op,         \* the running or last lifecycle operation of each instance
    build       \* which GetGitClient the handlers run against (see Builds)

vars == <<remote, prd, config, state, private, plan, imported, auth, tmp, op, build>>

(***************************************************************************)
(* Bounds of the model.                                                    *)
(***************************************************************************)
\* How many calls of the retried closure fit before the operation's deadline.
MaxAttempts == 2

Instances == {"r1", "r2"}
Branches == {"main", "dev"}
Paths == {"README.md"}
Contents == {"a", "b"}

(***************************************************************************)
(* Values.                                                                 *)
(***************************************************************************)
\* types.String: null, unknown or known; ValueString() of the first two is "".
NullStr == [k |-> "null", v |-> ""]
UnknownStr == [k |-> "unknown", v |-> ""]
Str(s) == [k |-> "known", v |-> s]
ValueString(t) == IF t.k = "known" THEN t.v ELSE ""
IsNull(t) == t.k = "null"
IsUnknown(t) == t.k = "unknown"
\* basetypes.StringValue.Equal: same state and, when known, same value.
StrEqual(t, u) == t.k = u.k /\ (t.k = "known" => t.v = u.v)

\* What a path is in a tree: nothing, a regular file, a directory, or a path
\* below a regular file (os.Stat fails with ENOTDIR).
Absent == [kind |-> "absent", content |-> ""]
Dir == [kind |-> "dir", content |-> ""]
NotDir == [kind |-> "enotdir", content |-> ""]
File(c) == [kind |-> "file", content |-> c]
Entries == {Absent, Dir, NotDir} \cup {File(c) : c \in Contents}

\* The observed state when the resource does not exist.
NoState == [null |-> TRUE, id |-> "", branch |-> NullStr, path |-> "", content |-> "", override |-> FALSE]
EmptyTree == [p \in Paths |-> Absent]

(***************************************************************************)
(* Drift-freeze plan modifier.                                             *)
(***************************************************************************)
\* unicode.ToLower on one ASCII character.
Upper == <<"A", "B", "C", "D", "E", "F", "G", "H", "I", "J", "K", "L", "M",
           "N", "O", "P", "Q", "R", "S", "T", "U", "V", "W", "X", "Y", "Z">>
Lower == <<"a", "b", "c", "d", "e", "f", "g", "h", "i", "j", "k", "l", "m",
           "n", "o", "p", "q", "r", "s", "t", "u", "v", "w", "x", "y", "z">>
ToLower(ch) == IF \E i \in 1..26 : Upper[i] = ch
               THEN Lower[CHOOSE i \in 1..26 : Upper[i] = ch] ELSE ch

\* strings.EqualFold(s, t): equal up to the case of the letters.
EqualFold(s, t) ==
    /\ Len(s) = Len(t)
    /\ \A i \in 1..Len(s) : ToLower(SubSeq(s, i, i)) = ToLower(SubSeq(t, i, i))

MutPlanModifyStringNoFreeze(stateValue, configValue, planValue, flag) == planValue

MutPlanModifyStringNoUnknownCheck(stateValue, configValue, planValue, flag) ==
    IF IsNull(stateValue) THEN planValue
    ELSE IF EqualFold(flag, "true") /\ ~StrEqual(configValue, stateValue) THEN stateValue
    ELSE planValue

\* useStateIfUpdatesShouldBeIgnored.PlanModifyString: the value of resp.PlanValue
\* on return (it is req.PlanValue on entry).
PlanModifyString(stateValue, configValue, planValue, flag) ==
    IF IsNull(stateValue) THEN planValue
    ELSE IF IsUnknown(configValue) THEN planValue
    ELSE IF EqualFold(flag, "true") /\ ~StrEqual(configValue, stateValue) THEN stateValue
    ELSE planValue

(***************************************************************************)
(* Existence probe.                                                        *)
(***************************************************************************)
\* FileExists(path) on a path that is e: (err, exists), or a nil dereference of
\* info when os.Stat failed with an error that is not "not exist".
FileExists(e) ==
    IF e.kind = "absent" THEN [err |-> "not exist", exists |-> FALSE, panic |-> FALSE]
    ELSE IF e.kind = "enotdir" THEN [err |-> "", exists |-> FALSE, panic |-> TRUE]
    ELSE IF e.kind = "dir" THEN [err |-> "file is a directory", exists |-> FALSE, panic |-> FALSE]
    ELSE [err |-> "", exists |-> TRUE, panic |-> FALSE]

(***************************************************************************)
(* Auth resolver and session provider.                                     *)
(***************************************************************************)
\* The http and ssh blocks of the provider configuration (*Http, *Ssh): a
\* block that is not declared is a nil pointer.
NilHttp == [nil |-> TRUE, username |-> "", password |-> "", certificate_authority |-> ""]
NilSsh == [nil |-> TRUE, username |-> "", password |-> "", private_key |-> ""]
HttpBlock(u, pw, ca) ==
    [nil |-> FALSE, username |-> u, password |-> pw, certificate_authority |-> ca]
SshBlock(u, pw, key) ==
    [nil |-> FALSE, username |-> u, password |-> pw, private_key |-> key]

\* No git.AuthOptions (a nil result).
NoAuthOptions == [transport |-> "", username |-> "", password |-> "", ca_file |-> "",
                  identity |-> "", known_hosts |-> ""]

\* What sourcesecret.ScanHostKey returns for the host of the url.
KnownHosts == "known hosts"

MutgetAuthOptsSshAsHttp(scheme, h, s, scanFails) ==
    CASE scheme \in {"http", "https", "ssh"} ->
            IF h.nil THEN [err |-> "", panic |-> TRUE, scanned |-> FALSE, opts |-> NoAuthOptions]
            ELSE [err |-> "", panic |-> FALSE, scanned |-> FALSE,
                  opts |-> [NoAuthOptions EXCEPT !.transport = scheme, !.username = h.username,
                                                 !.password = h.password,
                                                 !.ca_file = h.certificate_authority]]
      [] OTHER -> [err |-> "scheme is not supported", panic |-> FALSE, scanned |-> FALSE,
                   opts |-> NoAuthOptions]

\* getAuthOpts(u, h, s): the error or the options it returns, whether it
\* crashed on a nil block, and whether it scanned the host key; scanFails is
\* the outcome of that scan.
getAuthOpts(scheme, h, s, scanFails) ==
    CASE scheme = "http" ->
            IF h.nil THEN [err |-> "", panic |-> TRUE, scanned |-> FALSE, opts |-> NoAuthOptions]
            ELSE [err |-> "", panic |-> FALSE, scanned |-> FALSE,
                  opts |-> [NoAuthOptions EXCEPT !.transport = "http", !.username = h.username,
                                                 !.password = h.password]]
      [] scheme = "https" ->
            IF h.nil THEN [err |-> "", panic |-> TRUE, scanned |-> FALSE, opts |-> NoAuthOptions]
            ELSE [err |-> "", panic |-> FALSE, scanned |-> FALSE,
                  opts |-> [NoAuthOptions EXCEPT !.transport = "https", !.username = h.username,
                                                 !.password = h.password,
                                                 !.ca_file = h.certificate_authority]]
      [] scheme = "ssh" ->
            IF s.nil THEN [err |-> "", panic |-> TRUE, scanned |-> FALSE, opts |-> NoAuthOptions]
            ELSE IF s.private_key # "" THEN
                IF scanFails
                THEN [err |-> "scan host key failed", panic |-> FALSE, scanned |-> TRUE,
                      opts |-> NoAuthOptions]
                ELSE [err |-> "", panic |-> FALSE, scanned |-> TRUE,
                      opts |-> [NoAuthOptions EXCEPT !.transport = "ssh", !.username = s.username,
                                                     !.password = s.password,
                                                     !.identity = s.private_key,
                                                     !.known_hosts = KnownHosts]]
            ELSE [err |-> "ssh scheme cannot be used without private key", panic |-> FALSE,
                  scanned |-> FALSE, opts |-> NoAuthOptions]
      [] OTHER -> [err |-> "scheme is not supported", panic |-> FALSE, scanned |-> FALSE,
                   opts |-> NoAuthOptions]

\* No call of getAuthOpts yet.
NoAuthCall == [called |-> FALSE, scheme |-> "", h |-> NilHttp, s |-> NilSsh,
               out |-> [err |-> "", panic |-> FALSE, scanned |-> FALSE, opts |-> NoAuthOptions]]

\* branch := prd.branch; if branch == "" { branch = "main" }
CheckoutBranch(branch) == IF branch = "" THEN "main" ELSE branch

\* The scheme of a provider whose url url.Parse does not accept.
Unparsable == "%"

\* The faults of the environment a session open can meet: before the clone
\* (the host-key scan, os.MkdirTemp or gogit.NewClient fails) and in the
\* clone.
OpenFaults == {"none", "scan", "mkdir", "client"}
CloneFaults == {"none", "clone"}

\* GetGitClient up to gogit.NewClient: the url, the auth options, the
\* temporary workspace and the client.  dirs is the number of workspaces made.
OpenSession(p, fault) ==
    LET a == getAuthOpts(p.scheme, p.http, p.ssh, fault = "scan")
    IN  IF p.scheme = Unparsable THEN [err |-> "parse failed", dirs |-> 0]
        ELSE IF a.panic THEN [err |-> "panic", dirs |-> 0]
        ELSE IF a.err # "" THEN [err |-> a.err, dirs |-> 0]
        ELSE IF fault = "mkdir" THEN [err |-> "mkdir temp failed", dirs |-> 0]
        ELSE IF fault = "client" THEN [err |-> "could not create git client", dirs |-> 1]
        ELSE [err |-> "", dirs |-> 1]

\* GetGitClient with the clone of branch co: the session's error, the
\* workspaces made, the branch and the working tree.
Session(p, co, rem, fault) ==
    LET s == OpenSession(p, fault)
    IN  IF s.err # "" THEN [err |-> s.err, dirs |-> s.dirs, co |-> co, tree |-> EmptyTree]
        ELSE IF fault = "clone" \/ co \notin DOMAIN rem
        THEN [err |-> "clone failed", dirs |-> 1, co |-> co, tree |-> EmptyTree]
        ELSE [err |-> "", dirs |-> 1, co |-> co, tree |-> rem[co]]

\* The two sources disagree on GetGitClient and do not build together:
\*   "declared"  GetGitClient(ctx) as the provider file declares it: it has
\*               no branch parameter and clones prd.branch, whatever the
\*               handlers compute;
\*   "called"    GetGitClient(ctx, branch) as the handlers call it: the
\*               function as declared, but for the branch, which is the one
\*               it is called with.
\* Which one the handlers run against is fixed from the start.
Builds == {"declared", "called"}

\* The branch a session is a clone of, for the provider p and the branch the
\* handler passes: "main" when the one that counts is empty.
ClonedBranch(p, branch) == CheckoutBranch(IF build = "declared" THEN p.branch ELSE branch)

\* ProviderResourceData.GetGitClient against the remote rem: parse the url,
\* resolve auth, make a temporary workspace and a client, clone the branch
\* into it.
GetGitClient(p, branch, rem, fault) == Session(p, ClonedBranch(p, branch), rem, fault)

\* The directory of temporary files (os.TempDir): the names of the workspaces
\* made in it so far, in order, and of those that exist.  It is followed only
\* in the specifications that set watched.
NoTmp == [watched |-> FALSE, made |-> <<>>, live |-> {}]

\* How many workspaces the watched temporary directory can take.
MaxWorkspaces == 4

Room(t) == ~t.watched \/ Len(t.made) < MaxWorkspaces

MutMkdirTempFixedName(t) == 1

\* os.MkdirTemp("", "terraform-provider-git") in the directory t: a new
\* directory, under a name that no existing directory has.
MkdirTemp(t) == CHOOSE n \in 1..(Cardinality(t.live) + 1) : n \notin t.live

\* The workspace of a session open that made n (0 or 1) workspaces.
Workspace(t, n) == IF n > 0 THEN MkdirTemp(t) ELSE 0

MutOpenedRemovesOthers(t, n) ==
    IF t.watched /\ n > 0
    THEN [t EXCEPT !.made = Append(@, MkdirTemp(t)), !.live = {MkdirTemp(t)}]
    ELSE t

\* The directory t after a session open that made n workspaces.
Opened(t, n) ==
    IF t.watched /\ n > 0
    THEN [t EXCEPT !.made = Append(@, MkdirTemp(t)), !.live = @ \cup {MkdirTemp(t)}]
    ELSE t

(***************************************************************************)
(* The repository client's commit, on the working tree of a session.       *)
(***************************************************************************)
\* client.Commit(commit, repository.WithFiles({path: content})): write the
\* file and commit.  Writing to a path that is a directory (or is below a
\* file) fails; any other error the client returns is the fault.
CommitFile(tree, path, content, fault) ==
    IF tree[path].kind \in {"dir", "enotdir"} THEN [err |-> "write file failed", tree |-> tree]
    ELSE IF fault THEN [err |-> "commit failed", tree |-> tree]
    ELSE [err |-> "", tree |-> [tree EXCEPT ![path] = File(content)]]

\* os.Remove(path) followed by client.Commit(commit) in Delete.
RemoveAndCommit(tree, path, fault) ==
    IF fault = "remove" THEN [err |-> "remove failed", removed |-> FALSE, tree |-> tree]
    ELSE IF fault = "commit" THEN [err |-> "commit failed", removed |-> TRUE, tree |-> tree]
    ELSE [err |-> "", removed |-> TRUE, tree |-> [tree EXCEPT ![path] = Absent]]

(***************************************************************************)
(* The retried closures of Create, Update and Delete, from the clone to    *)
(* the commit.  ret is what the closure does next: "push" when it goes on  *)
(* to client.Push, "abort" for retry.NonRetryableError(err), "nil" for a   *)
(* return of nil before any push, "panic" for a crash.                     *)
(***************************************************************************)
LocalFaults == {"none", "remove", "commit"}
PushErrors == {"push failed", "push rejected"}

\* branch := r.prd.branch; if branch == "" { branch = data.Branch.ValueString() }
\* (the argument the handlers compute for GetGitClient)
OpBranch(p, data) == IF p.branch = "" THEN ValueString(data.branch) ELSE p.branch

MutCreateLocalIgnoreConflict(tree, data, fault) ==
    LET e == tree[data.path]
        c == CommitFile(tree, data.path, data.content, fault = "commit")
    IN  IF e.kind = "enotdir"
        THEN [ret |-> "abort", err |-> "stat failed", tree |-> tree, removed |-> FALSE]
        ELSE IF c.err # ""
        THEN [ret |-> "abort", err |-> c.err, tree |-> tree, removed |-> FALSE]
        ELSE [ret |-> "push", err |-> "", tree |-> c.tree, removed |-> FALSE]

\* Create, lines 203-215: os.Stat, the override check, the commit.
CreateLocal(tree, data, fault) ==
    LET e == tree[data.path]
        c == CommitFile(tree, data.path, data.content, fault = "commit")
    IN  IF e.kind = "enotdir"
        THEN [ret |-> "abort", err |-> "stat failed", tree |-> tree, removed |-> FALSE]
        ELSE IF e.kind # "absent" /\ ~data.override
        THEN [ret |-> "abort", err |-> "cannot override existing file", tree |-> tree, removed |-> FALSE]
        ELSE IF c.err # ""
        THEN [ret |-> "abort", err |-> c.err, tree |-> tree, removed |-> FALSE]
        ELSE [ret |-> "push", err |-> "", tree |-> c.tree, removed |-> FALSE]

MutUpdateLocalCreates(tree, data, fault) ==
    LET c == CommitFile(tree, data.path, data.content, fault = "commit")
    IN  IF c.err # ""
        THEN [ret |-> "abort", err |-> c.err, tree |-> tree, removed |-> FALSE]
        ELSE [ret |-> "push", err |-> "", tree |-> c.tree, removed |-> FALSE]

\* Update, lines 295-307: FileExists, the commit.
UpdateLocal(tree, data, fault) ==
    LET x == FileExists(tree[data.path])
        c == CommitFile(tree, data.path, data.content, fault = "commit")
    IN  IF x.panic
        THEN [ret |-> "panic", err |-> "panic", tree |-> tree, removed |-> FALSE]
        ELSE IF ~x.exists
        THEN [ret |-> "abort", err |-> "File Doesn't Exist", tree |-> tree, removed |-> FALSE]
        ELSE IF c.err # ""
        THEN [ret |-> "abort", err |-> c.err, tree |-> tree, removed |-> FALSE]
        ELSE [ret |-> "push", err |-> "", tree |-> c.tree, removed |-> FALSE]

MutDeleteLocalMissingIsError(tree, data, fault) ==
    LET x == FileExists(tree[data.path])
        c == RemoveAndCommit(tree, data.path, fault)
    IN  IF x.panic
        THEN [ret |-> "panic", err |-> "panic", tree |-> tree, removed |-> FALSE]
        ELSE IF ~x.exists
        THEN [ret |-> "abort", err |-> "File Doesn't Exist", tree |-> tree, removed |-> FALSE]
        ELSE IF c.err # ""
        THEN [ret |-> "abort", err |-> c.err, tree |-> tree, removed |-> c.removed]
        ELSE [ret |-> "push", err |-> "", tree |-> c.tree, removed |-> TRUE]

\* Delete, lines 358-372: FileExists, os.Remove, the commit.
DeleteLocal(tree, data, fault) ==
    LET x == FileExists(tree[data.path])
        c == RemoveAndCommit(tree, data.path, fault)
    IN  IF x.panic
        THEN [ret |-> "panic", err |-> "panic", tree |-> tree, removed |-> FALSE]
        ELSE IF ~x.exists
        THEN [ret |-> "nil", err |-> "", tree |-> tree, removed |-> FALSE]
        ELSE IF c.err # ""
        THEN [ret |-> "abort", err |-> c.err, tree |-> tree, removed |-> c.removed]
        ELSE [ret |-> "push", err |-> "", tree |-> c.tree, removed |-> TRUE]

Local(kind, tree, data, fault) ==
    CASE kind = "Create" -> CreateLocal(tree, data, fault)
      [] kind = "Update" -> UpdateLocal(tree, data, fault)
      [] OTHER -> DeleteLocal(tree, data, fault)

(***************************************************************************)
(* The state machine.                                                      *)
(***************************************************************************)
\* data: the RepositoryFileResourceModel a handler works on (strings by
\* ValueString, but for branch, a types.String: null when it is not
\* declared).  In the record of an operation:
\*   pc       "attempt", "clone", "push", "sent", "retry" while the handler
\*            runs ("clone": its workspace and client are made, the clone is
\*            to come; "sent": the remote has taken the push, client.Push
\*            waits for the answer), "done" when it returns its response,
\*            "idle" once the host tool has taken it
\*   attempts calls of the retried closure; pushes, failed: calls of client.Push
\*            and how many of them failed; sessions: workspaces it created
\*   pushed   a push of this operation succeeded; removed: os.Remove ran
\*   probe    what the path was in the last clone ("" before any clone)
\*   change, co, stale   the commit waiting to be pushed (what it makes of the
\*            branch), the branch it was cloned from, whether that branch
\*            moved since the clone
\*            (in a record at "sent", and at "done" with a report of success:
\*            whether another writer came since the remote took the push,
\*            since the handler returned)
\*   ws       the workspace that holds that commit (0 when there is none)
\*   cloned   the branch of the last clone made for the instance, by this
\*            operation or by the successful one right before it ("" when
\*            there is none, or another writer came in between)
\*   ok, err, errAt    the report, and the attempt the reported error is from
\*   after    the operation that succeeded right before this one, with no
\*            other writer since ("none" otherwise); an idle record keeps in
\*            kind the operation that succeeded last, until another writer
\*            comes
NoData == [id |-> "", branch |-> NullStr, path |-> "", content |-> "", override |-> FALSE]

IdleOp == [kind |-> "none", pc |-> "idle", data |-> NoData,
           attempts |-> 0, pushes |-> 0, failed |-> 0,
           sessions |-> 0, pushed |-> FALSE, removed |-> FALSE, probe |-> "",
           change |-> EmptyTree, co |-> "", stale |-> FALSE, ws |-> 0, cloned |-> "",
           ok |-> FALSE, err |-> "", errAt |-> 0, after |-> "none"]

\* No attribute set by ImportState (req: the identifier it was asked for).
NoImport == [req |-> "", set |-> FALSE, branch |-> NullStr, id |-> "", path |-> "", content |-> "",
             override_on_create |-> FALSE, author_name |-> "", message |-> ""]

NoPlan == [state |-> NullStr, config |-> NullStr, flag |-> "", content |-> NullStr]

Running(r) == op[r].pc \in {"attempt", "clone", "push", "sent", "retry"}
Idle(r) == op[r].pc = "idle"

\* A new operation of kind k on data d.
StartOp(r, k, d) ==
    [IdleOp EXCEPT !.kind = k, !.pc = "attempt", !.data = d, !.after = op[r].kind,
                   !.cloned = op[r].cloned]

StateOf(d) == [null |-> FALSE, id |-> d.id, branch |-> d.branch, path |-> d.path,
               content |-> d.content, override |-> d.override]
DataOf(s) == [id |-> s.id, branch |-> s.branch, path |-> s.path,
              content |-> s.content, override |-> s.override]

ProviderConfigs ==
    { [scheme |-> "https", http |-> HttpBlock("user", "pass", ""), ssh |-> NilSsh,
       branch |-> b, ignore_updates |-> FALSE]
        : b \in {"", "dev"} }
    \cup
    { [scheme |-> "ssh", http |-> NilHttp, ssh |-> SshBlock("git", "", ""),
       branch |-> "", ignore_updates |-> FALSE],
      [scheme |-> Unparsable, http |-> HttpBlock("user", "pass", ""), ssh |-> NilSsh,
       branch |-> "", ignore_updates |-> FALSE] }

KnownContents == {Str(x) : x \in Contents}

ResourceConfigs ==
    { [branch |-> b, path |-> p, content |-> c, override |-> o]
        : b \in {NullStr, Str("dev")}, p \in Paths, c \in KnownContents, o \in BOOLEAN }

\* The builds to tell apart for a provider p and a resource c: where both
\* declare the same branch, or none, every call of GetGitClient that does not
\* come from an import clones that branch (main for none) in either build,
\* and one build stands for both.
BuildsOf(p, c) == IF p.branch = ValueString(c.branch) THEN {"called"} ELSE Builds

InitWith(providers, resources) ==
    /\ remote = [b \in Branches |-> EmptyTree]
    /\ prd \in providers
    /\ \E c \in resources :
          config = [r \in Instances |-> IF r = "r1" THEN c ELSE [c EXCEPT !.branch = NullStr]]
    /\ build \in BuildsOf(prd, config["r1"])
    /\ state = [r \in Instances |-> NoState]
    /\ private = [r \in Instances |-> ""]
    /\ plan = NoPlan
    /\ imported = NoImport
    /\ auth = NoAuthCall
    /\ tmp = NoTmp
    /\ op = [r \in Instances |-> IdleOp]

Init == InitWith(ProviderConfigs, ResourceConfigs)

----
\* The operation records after a write to branch b by somebody else: a
\* clone of b waiting to be pushed is behind, nobody is "right after" its
\* predecessor any more, and a response on its way to the host tool is not
\* the last thing that happened to the repository.
Disturbed(b) ==
    [q \in Instances |->
        IF Running(q)
        THEN [op[q] EXCEPT !.after = "none",
                           !.stale = (@ \/ (op[q].pc = "push" /\ op[q].co = b)
                                        \/ op[q].pc = "sent")]
        ELSE IF op[q].pc = "done" THEN [op[q] EXCEPT !.after = "none", !.stale = op[q].ok]
        ELSE IdleOp]

\* The branches the operations of the managed instance clone: the one its
\* Create, Update and Delete ask for and the one its Read asks for.
Watched(r) ==
    {ClonedBranch(prd, OpBranch(prd, config[r])),
     ClonedBranch(prd, ValueString(config[r].branch))}

\* Another writer (any other client of the repository) changes a path of a
\* branch, at any moment: also while a handler runs or its response is on its
\* way to the host tool.
ExternalWrite(b, p, e) ==
    /\ remote[b][p] # e
    /\ remote' = [remote EXCEPT ![b][p] = e]
    /\ op' = Disturbed(b)
    /\ UNCHANGED <<prd, config, state, private, plan, imported, auth, tmp, build>>

\* The practitioner edits the declared content or override_on_create.
SetConfig(r, c, o) ==
    /\ Idle(r)
    /\ <<c, o>> # <<config[r].content, config[r].override>>
    /\ config' = [config EXCEPT ![r].content = c, ![r].override = o]
    /\ UNCHANGED <<remote, prd, state, private, plan, imported, auth, tmp, op, build>>

\* GitProvider.Configure with another ignore_updates, between two runs.
Configure(i) ==
    /\ \A r \in Instances : Idle(r)
    /\ prd.ignore_updates # i
    /\ prd' = [prd EXCEPT !.ignore_updates = i]
    /\ UNCHANGED <<remote, config, state, private, plan, imported, auth, tmp, op, build>>

----
(***************************************************************************)
(* Planning (the host tool).  The content attribute goes through the plan  *)
(* modifier, at plan time and again when the plan is applied, where a      *)
(* content that was unknown at plan time is known (any value).  A resource *)
(* without state is created; a difference in branch or path replaces the   *)
(* resource (Delete, then Create); another difference between the plan and *)
(* the state is applied by Update.                                         *)
(***************************************************************************)
PriorContent(r) == IF state[r].null THEN NullStr ELSE Str(state[r].content)

PlannedContent(r) ==
    PlanModifyString(PriorContent(r), config[r].content, config[r].content, private[r])

Resolved(t) == IF IsUnknown(t) THEN Contents ELSE {ValueString(t)}

\* The content of the plan that is applied when the declared content turns
\* out to be c: the plan modifier runs on the known value.
AppliedContent(r, c) ==
    ValueString(PlanModifyString(PriorContent(r), Str(c), Str(c), private[r]))

\* stringplanmodifier.RequiresReplace() on branch and on path: the planned
\* value (the declared one) differs from the one in the state.
RequiresReplace(r) ==
    \/ ~StrEqual(config[r].branch, state[r].branch)
    \/ config[r].path # state[r].path

PlanCreate(r) ==
    /\ Idle(r)
    /\ state[r].null
    /\ \E c \in Resolved(config[r].content) :
          op' = [op EXCEPT ![r] = StartOp(r, "Create",
                    [id |-> "", branch |-> config[r].branch, path |-> config[r].path,
                     content |-> AppliedContent(r, c), override |-> config[r].override])]
    /\ UNCHANGED <<remote, prd, config, state, private, plan, imported, auth, tmp, build>>

\* An update in place: planned when the plan differs from the state, called
\* when the plan that is applied still does.
PlanUpdate(r) ==
    /\ Idle(r)
    /\ ~state[r].null
    /\ ~RequiresReplace(r)
    /\ \/ ~StrEqual(PlannedContent(r), PriorContent(r))
       \/ config[r].override # state[r].override
    /\ \E c \in Resolved(config[r].content) :
          /\ \/ AppliedContent(r, c) # state[r].content
             \/ config[r].override # state[r].override
          /\ op' = [op EXCEPT ![r] = StartOp(r, "Update",
                       [id |-> state[r].id, branch |-> config[r].branch,
                        path |-> config[r].path, content |-> AppliedContent(r, c),
                        override |-> config[r].override])]
    /\ UNCHANGED <<remote, prd, config, state, private, plan, imported, auth, tmp, build>>

\* The first half of a replacement: Delete on the prior state.  The second
\* half is the Create planned once the resource has no state.
PlanReplace(r) ==
    /\ Idle(r)
    /\ ~state[r].null
    /\ RequiresReplace(r)
    /\ op' = [op EXCEPT ![r] = StartOp(r, "Delete", DataOf(state[r]))]
    /\ UNCHANGED <<remote, prd, config, state, private, plan, imported, auth, tmp, build>>

\* Destroy: Delete on the observed state (req.State); an instance without
\* state has nothing to destroy.
Destroy(r) ==
    /\ Idle(r)
    /\ ~state[r].null
    /\ op' = [op EXCEPT ![r] = StartOp(r, "Delete", DataOf(state[r]))]
    /\ UNCHANGED <<remote, prd, config, state, private, plan, imported, auth, tmp, build>>

----
(***************************************************************************)
(* The exit of a handler: the report, and the state it leaves.             *)
(***************************************************************************)
MutStateAfterNoReturn(o, ok, prior) ==
    CASE o.kind = "Create" -> StateOf([o.data EXCEPT !.id = o.data.path])
      [] o.kind = "Update" -> StateOf(o.data)
      [] OTHER -> NoState

MutStateAfterNoId(o, ok, prior) ==
    IF ~ok THEN prior
    ELSE CASE o.kind = "Create" -> StateOf(o.data)
           [] o.kind = "Update" -> StateOf(o.data)
           [] OTHER -> NoState

\* Create lines 224-230, Update lines 316-321, Delete lines 381-384: the
\* state is written only when RetryContext returned no error.
StateAfter(o, ok, prior) ==
    IF ~ok THEN prior
    ELSE CASE o.kind = "Create" -> StateOf([o.data EXCEPT !.id = o.data.path])
           [] o.kind = "Update" -> StateOf(o.data)
           [] OTHER -> NoState

Done(o, ok, err, at) ==
    [o EXCEPT !.pc = "done", !.ok = ok, !.err = err, !.errAt = at,
              !.change = EmptyTree, !.co = "", !.stale = (ok /\ o.pc = "sent" /\ o.stale),
              !.ws = 0]

MutFinishDropsPrivate(r, ops, o, ok, err, at) ==
    /\ op' = [ops EXCEPT ![r] = Done(o, ok, err, at)]
    /\ state' = [state EXCEPT ![r] = StateAfter(o, ok, state[r])]
    /\ private' = [private EXCEPT ![r] = IF ok THEN "" ELSE @]

Finish(r, ops, o, ok, err, at) ==
    /\ op' = [ops EXCEPT ![r] = Done(o, ok, err, at)]
    /\ state' = [state EXCEPT ![r] = StateAfter(o, ok, state[r])]
    /\ private' = [private EXCEPT ![r] = IF ok /\ o.kind = "Delete" THEN "" ELSE @]

\* retry.RetryContext on the closure's return value: nil ends the loop with
\* success, a NonRetryableError (or a crash) ends it with that error, a
\* RetryableError is remembered and the closure is called again later.
AfterClosure(r, ops, o, ret, err) ==
    IF ret = "nil" THEN Finish(r, ops, o, TRUE, "", 0)
    ELSE IF ret = "retry"
    THEN /\ op' = [ops EXCEPT ![r] = [o EXCEPT !.pc = "retry", !.err = err, !.errAt = o.attempts,
                                               !.change = EmptyTree, !.co = "", !.stale = FALSE,
                                               !.ws = 0]]
         /\ UNCHANGED <<state, private>>
    ELSE Finish(r, ops, o, FALSE, err, o.attempts)

\* A call of the retried closure begins: GetGitClient up to the new client
\* (the workspace is made).  Other handlers and other writers run while the
\* clone is on its way.
Attempt(r) ==
    /\ op[r].pc = "attempt"
    /\ Room(tmp)
    /\ \E sf \in OpenFaults :
          LET s == OpenSession(prd, sf)
              o1 == [op[r] EXCEPT !.attempts = @ + 1, !.sessions = @ + s.dirs,
                                  !.ws = Workspace(tmp, s.dirs)]
          IN  /\ tmp' = Opened(tmp, s.dirs)
              /\ IF s.err # "" THEN AfterClosure(r, op, o1, "abort", s.err)
                 ELSE /\ op' = [op EXCEPT ![r] = [o1 EXCEPT !.pc = "clone"]]
                      /\ UNCHANGED <<state, private>>
    /\ UNCHANGED <<remote, prd, config, plan, imported, auth, build>>

\* The rest of the call, up to the commit: the clone of the branch as it is
\* now, the probe, the local change and the commit.  After the clone the
\* closure works in its workspace only, until it pushes or returns: what
\* another writer does to the repository meanwhile shows at the push (the
\* commit is behind) or, when the closure returns without a push, is a write
\* that finds the response on its way to the host tool (a record at "done").
Clone(r) ==
    /\ op[r].pc = "clone"
    /\ op[r].kind \in {"Create", "Update", "Delete"}
    /\ \E cf \in CloneFaults, lf \in LocalFaults :
          LET o == op[r]
              c == GetGitClient(prd, OpBranch(prd, o.data), remote, cf)
              l == Local(o.kind, c.tree, o.data, lf)
              o2 == [o EXCEPT !.probe = c.tree[o.data.path].kind, !.removed = (@ \/ l.removed),
                              !.cloned = c.co]
          IN  IF c.err # "" THEN AfterClosure(r, op, o, "abort", c.err)
              ELSE IF l.ret = "push"
              THEN /\ op' = [op EXCEPT ![r] = [o2 EXCEPT !.pc = "push", !.co = c.co,
                                                          !.change = l.tree,
                                                          !.stale = FALSE]]
                   /\ UNCHANGED <<state, private>>
              ELSE AfterClosure(r, op, o2, l.ret, l.err)
    /\ UNCHANGED <<remote, prd, config, plan, imported, auth, tmp, build>>

MutPushReturnAlwaysRetry(e) == "retry"

\* err = client.Push(...); if err != nil { return retry.RetryableError(err) }; return nil
PushReturn(e) == IF e # "" THEN "retry" ELSE "nil"

MutAcceptsForced(o) == TRUE

\* client.Push(ctx, repository.PushConfig{}) is a push without force: the
\* remote takes the commit of o only when the branch has not moved since the
\* clone.
Accepts(o) == ~o.stale

\* client.Push sends the commit and the remote takes it: the branch becomes
\* the commit.  The call waits for the answer; the handler has not returned
\* and the state is not written yet.
PushOk(r) ==
    /\ op[r].pc = "push"
    /\ Accepts(op[r])
    /\ remote' = [remote EXCEPT ![op[r].co] = op[r].change]
    /\ op' = [Disturbed(op[r].co) EXCEPT
                 ![r] = [op[r] EXCEPT !.pc = "sent", !.pushes = @ + 1, !.pushed = TRUE,
                                      !.stale = FALSE]]
    /\ UNCHANGED <<prd, config, state, private, plan, imported, auth, tmp, build>>

\* The answer arrives: client.Push returns nil, the closure returns nil,
\* RetryContext returns nil and the handler writes the state (Create and
\* Update) and returns.
PushEnd(r) ==
    /\ op[r].pc = "sent"
    /\ AfterClosure(r, op, op[r], PushReturn(""), "")
    /\ UNCHANGED <<remote, prd, config, plan, imported, auth, tmp, build>>

\* client.Push fails: rejected (the branch moved) or a network failure.
PushFail(r) ==
    /\ op[r].pc = "push"
    /\ LET e == IF op[r].stale THEN "push rejected" ELSE "push failed"
       IN  AfterClosure(r, op, [op[r] EXCEPT !.pushes = @ + 1, !.failed = @ + 1],
                        PushReturn(e), e)
    /\ UNCHANGED <<remote, prd, config, plan, imported, auth, tmp, build>>

\* The retry loop calls the closure again while the deadline has not elapsed.
Retry(r) ==
    /\ op[r].pc = "retry"
    /\ op[r].attempts < MaxAttempts
    /\ op' = [op EXCEPT ![r] = [@ EXCEPT !.pc = "attempt"]]
    /\ UNCHANGED <<remote, prd, config, state, private, plan, imported, auth, tmp, build>>

\* The error of a deadline that elapses before the closure returned one.
DeadlineExceeded == "context deadline exceeded"

\* The deadline of context.WithTimeout elapses.  RetryContext, the clone and
\* client.Push all wait on that context: the deadline ends the handler
\* between two calls of the closure and also while the closure runs, the
\* remote having taken its push or not.  The handler reports the last error
\* the closure returned, the error of the context when there is none, and
\* writes no state.
Timeout(r) ==
    /\ Running(r)
    /\ op[r].kind \in {"Create", "Update", "Delete"}
    /\ Finish(r, op, op[r], FALSE,
              IF op[r].err = "" THEN DeadlineExceeded ELSE op[r].err, op[r].errAt)
    /\ UNCHANGED <<remote, prd, config, plan, imported, auth, tmp, build>>

\* The host tool takes the response; what stays, when the operation
\* succeeded and no other writer came since, is which operation ran last and
\* the branch it cloned.
Ack(r) ==
    /\ op[r].pc = "done"
    /\ op' = [op EXCEPT ![r] = IF op[r].ok /\ ~op[r].stale
                                THEN [IdleOp EXCEPT !.kind = op[r].kind, !.cloned = op[r].cloned]
                                ELSE IdleOp]
    /\ imported' = NoImport
    /\ UNCHANGED <<remote, prd, config, state, private, plan, auth, tmp, build>>

----
(***************************************************************************)
(* Read.                                                                   *)
(***************************************************************************)
\* os.Stat(filepath.Join(client.Path(), name)) in a working tree: an empty
\* name is the workspace directory itself.
Lookup(tree, name) ==
    IF name = "" THEN Dir
    ELSE IF name \in DOMAIN tree THEN tree[name]
    ELSE Absent

\* The faults of the environment ReadFile can meet once its workspace and
\* client are made: the clone or os.ReadFile fails.
ReadFaults == CloneFaults \cup {"read"}

\* ReadFile once GetGitClient returned c: the probe of data.ID and the read
\* (co: the branch that was cloned, "" when none was).
ReadFileIn(c, data, fault) ==
    LET e == Lookup(c.tree, data.id)
        x == FileExists(e)
    IN  IF c.err = "panic"
        THEN [diag |-> "panic", data |-> data, dirs |-> c.dirs, probe |-> "", co |-> ""]
        ELSE IF c.err # ""
        THEN [diag |-> "Git Client Error", data |-> data, dirs |-> c.dirs, probe |-> "",
              co |-> ""]
        ELSE IF x.panic
        THEN [diag |-> "panic", data |-> data, dirs |-> c.dirs, probe |-> e.kind, co |-> c.co]
        ELSE IF ~x.exists
        THEN [diag |-> "File Doesn't Exist", data |-> data, dirs |-> c.dirs, probe |-> e.kind,
              co |-> c.co]
        ELSE IF fault = "read"
        THEN [diag |-> "Error Reading File", data |-> data, dirs |-> c.dirs, probe |-> e.kind,
              co |-> c.co]
        ELSE [diag |-> "", data |-> [data EXCEPT !.path = data.id, !.content = e.content],
              dirs |-> c.dirs, probe |-> e.kind, co |-> c.co]

\* RepositoryFileResource.ReadFile: the session is opened, the file is looked
\* up at data.ID.
ReadFile(p, rem, data, fault) ==
    ReadFileIn(GetGitClient(p, ValueString(data.branch), rem, fault), data, fault)

\* The response of Read after ReadFile returned f, with the private key set
\* to flag.
ReadResponse(flag, f) ==
    [flag |-> flag, diag |-> f.diag, data |-> f.data, dirs |-> f.dirs, probe |-> f.probe,
     co |-> f.co]

MutReadHandlerNoEarlyReturn(p, rem, data, fault) ==
    ReadResponse(IF p.ignore_updates THEN "true" ELSE "false", ReadFile(p, rem, data, fault))

\* RepositoryFileResource.Read: the response (the private key it set, the
\* diagnostics, the state it set) and the workspaces it created.
ReadHandler(p, rem, data, fault) ==
    IF p.ignore_updates
    THEN [flag |-> "true", diag |-> "", data |-> data, dirs |-> 0, probe |-> "", co |-> ""]
    ELSE ReadResponse("false", ReadFile(p, rem, data, fault))

\* Read returns the response h.  The host tool keeps the response (state and
\* private state) of a Read without error diagnostics, and drops it
\* otherwise.  after: what the call follows.
ReadReturns(r, h, after) ==
    LET o == [StartOp(r, "Read", h.data) EXCEPT !.attempts = 1, !.sessions = h.dirs,
                                                !.probe = h.probe, !.after = after,
                                                !.cloned = IF h.co = "" THEN @ ELSE h.co]
    IN  IF h.diag = ""
        THEN /\ private' = [private EXCEPT ![r] = h.flag]
             /\ state' = [state EXCEPT ![r] = StateOf(h.data)]
             /\ op' = [op EXCEPT ![r] = Done(o, TRUE, "", 0)]
        ELSE /\ op' = [op EXCEPT ![r] = Done(o, FALSE, h.diag, 1)]
             /\ UNCHANGED <<state, private>>

\* Read returns before any clone, with the response h.
ReadReturnsEarly(r, h, after) ==
    /\ tmp' = Opened(tmp, h.dirs)
    /\ ReadReturns(r, h, after)

\* Read is called on the state of r: with ignore_updates it returns at once;
\* otherwise GetGitClient runs up to the new client, and Read returns when
\* that fails.
ReadCall(r, after) ==
    \E sf \in OpenFaults :
        IF prd.ignore_updates \/ OpenSession(prd, sf).err # ""
        THEN ReadReturnsEarly(r, ReadHandler(prd, remote, DataOf(state[r]), sf), after)
        ELSE /\ tmp' = Opened(tmp, 1)
             /\ op' = [op EXCEPT ![r] =
                          [StartOp(r, "Read", DataOf(state[r]))
                              EXCEPT !.pc = "clone", !.attempts = 1, !.sessions = 1,
                                     !.after = after, !.ws = Workspace(tmp, 1)]]
             /\ UNCHANGED <<state, private>>

\* A refresh begins.
Read(r) ==
    /\ Idle(r)
    /\ ~state[r].null
    /\ Room(tmp)
    /\ ReadCall(r, op[r].kind)
    /\ UNCHANGED <<remote, prd, config, plan, imported, auth, build>>

\* The rest of Read: the clone of the branch as it is now, the probe, the
\* read and the return.
ReadEnd(r) ==
    /\ op[r].pc = "clone"
    /\ op[r].kind = "Read"
    /\ \E cf \in ReadFaults :
          ReadReturns(r, ReadHandler(prd, remote, op[r].data, cf), op[r].after)
    /\ UNCHANGED <<remote, prd, config, plan, imported, auth, tmp, build>>

----
(***************************************************************************)
(* Import.                                                                 *)
(***************************************************************************)
\* strings.Cut(s, ":"): the text before and after the first colon.
CutIndex(s) ==
    IF \E i \in 1..Len(s) : SubSeq(s, i, i) = ":"
    THEN CHOOSE i \in 1..Len(s) :
            /\ SubSeq(s, i, i) = ":"
            /\ \A j \in 1..(i - 1) : SubSeq(s, j, j) # ":"
    ELSE 0

Cut(s) ==
    LET i == CutIndex(s)
    IN  IF i = 0 THEN [before |-> s, after |-> "", found |-> FALSE]
        ELSE [before |-> SubSeq(s, 1, i - 1), after |-> SubSeq(s, i + 1, Len(s)), found |-> TRUE]

DefaultAuthorName == "Terraform Provider Git"
DefaultMessage == "Write file with Terraform Provider Git."

\* The model ImportState seeds from the two parts of the identifier.
ImportModel(c) ==
    [id |-> c.after, branch |-> Str(c.before), path |-> "", content |-> "", override |-> TRUE]

MutImportResponseNoReturn(id, c, f) ==
    IF f.diag # ""
    THEN [diag |-> f.diag, data |-> f.data, dirs |-> f.dirs, probe |-> f.probe,
          co |-> f.co, attrs |-> NoImport]
    ELSE [diag |-> IF c.found THEN "" ELSE "Expected id to have format branch:path",
          data |-> f.data, dirs |-> f.dirs, probe |-> f.probe, co |-> f.co,
          attrs |-> NoImport]

\* ImportState after strings.Cut gave c: the diagnostics, the model after
\* ReadFile (f, which is not called when the colon is missing), the
\* attributes set in the response and the workspaces created.
ImportResponse(id, c, f) ==
    IF ~c.found
    THEN [diag |-> "Expected id to have format branch:path", data |-> ImportModel(c),
          dirs |-> 0, probe |-> "", co |-> "", attrs |-> NoImport]
    ELSE IF f.diag # ""
    THEN [diag |-> f.diag, data |-> f.data, dirs |-> f.dirs, probe |-> f.probe,
          co |-> f.co, attrs |-> NoImport]
    ELSE [diag |-> "", data |-> f.data, dirs |-> f.dirs, probe |-> f.probe, co |-> f.co,
          attrs |-> [req |-> id, set |-> TRUE, branch |-> Str(ValueString(f.data.branch)), id |-> f.data.id,
                     path |-> f.data.path, content |-> f.data.content,
                     override_on_create |-> f.data.override,
                     author_name |-> DefaultAuthorName, message |-> DefaultMessage]]

\* RepositoryFileResource.ImportState on req.ID = id.
ImportState(p, rem, id, fault) ==
    ImportResponse(id, Cut(id), ReadFile(p, rem, ImportModel(Cut(id)), fault))

\* ImportState returns the response h for the identifier id.
ImportReturns(r, id, h, after) ==
    LET o == [StartOp(r, "Import", h.data) EXCEPT !.attempts = 1, !.sessions = h.dirs,
                                                  !.probe = h.probe, !.after = after,
                                                  !.cloned = IF h.co = "" THEN @ ELSE h.co]
    IN  /\ imported' = [h.attrs EXCEPT !.req = id]
        /\ IF h.diag = ""
           THEN /\ state' = [state EXCEPT ![r] = StateOf(h.data)]
                /\ op' = [op EXCEPT ![r] = Done(o, TRUE, "", 0)]
           ELSE /\ op' = [op EXCEPT ![r] = Done(o, FALSE, h.diag, 1)]
                /\ UNCHANGED state

\* ImportState returns before any clone, with the response h.
ImportReturnsEarly(r, id, h, after) ==
    /\ tmp' = Opened(tmp, h.dirs)
    /\ ImportReturns(r, id, h, after)

\* The identifier an import that is running was called with.
ImportId(data) == ValueString(data.branch) \o ":" \o data.id

\* ImportState is called with the identifier id: it returns at once when
\* the colon is missing; otherwise GetGitClient runs up to the new client,
\* and ImportState returns when that fails.
ImportCall(r, id, after) ==
    \E sf \in OpenFaults :
        IF ~Cut(id).found \/ OpenSession(prd, sf).err # ""
        THEN ImportReturnsEarly(r, id, ImportState(prd, remote, id, sf), after)
        ELSE /\ tmp' = Opened(tmp, 1)
             /\ op' = [op EXCEPT ![r] =
                          [StartOp(r, "Import", ImportModel(Cut(id)))
                              EXCEPT !.pc = "clone", !.attempts = 1, !.sessions = 1,
                                     !.after = after, !.ws = Workspace(tmp, 1)]]
             /\ UNCHANGED <<state, imported>>

\* terraform import of instance r, which is not in the state yet, begins.
Import(r, id) ==
    /\ Idle(r)
    /\ state[r].null
    /\ Room(tmp)
    /\ ImportCall(r, id, op[r].kind)
    /\ UNCHANGED <<remote, prd, config, private, plan, auth, build>>

\* The rest of ImportState: the clone of the branch as it is now, the probe,
\* the read and the return.
ImportEnd(r) ==
    /\ op[r].pc = "clone"
    /\ op[r].kind = "Import"
    /\ \E cf \in ReadFaults :
          ImportReturns(r, ImportId(op[r].data),
                        ImportState(prd, remote, ImportId(op[r].data), cf), op[r].after)
    /\ UNCHANGED <<remote, prd, config, private, plan, auth, tmp, build>>

----
Managed == {"r1"}

Next ==
    \/ \E r \in Managed, b \in Branches, p \in Paths, e \in Entries :
          b \in Watched(r) /\ ExternalWrite(b, p, e)
    \/ \E r \in Managed, c \in KnownContents, o \in BOOLEAN : SetConfig(r, c, o)
    \/ \E r \in Managed : PlanCreate(r)
    \/ \E r \in Managed : PlanUpdate(r)
    \/ \E r \in Managed : Destroy(r)
    \/ \E r \in Managed : Read(r)
    \/ \E r \in Managed : ReadEnd(r)
    \/ \E r \in Managed : Attempt(r)
    \/ \E r \in Managed : Clone(r)
    \/ \E r \in Managed : PushOk(r)
    \/ \E r \in Managed : PushEnd(r)
    \/ \E r \in Managed : PushFail(r)
    \/ \E r \in Managed : Retry(r)
    \/ \E r \in Managed : Timeout(r)
    \/ \E r \in Managed : Ack(r)

Spec == Init /\ [][Next]_vars

\* The same lifecycle for one provider and a resource whose declared
\* configuration does not change (updates come from the drift a Read finds),
\* with the handler running to its end: a handler that can take a step takes
\* one.  No branch is declared on the provider or on the resource: every
\* session is a clone of main.
Step(r) ==
    \/ Attempt(r) \/ Clone(r) \/ ReadEnd(r) \/ PushOk(r) \/ PushEnd(r) \/ PushFail(r)
    \/ Retry(r) \/ Timeout(r)

FairInit ==
    InitWith({p \in ProviderConfigs : p.scheme = "https" /\ p.branch = ""},
             {c \in ResourceConfigs : IsNull(c.branch)})

FairNext ==
    \/ \E r \in Managed, b \in Branches, p \in Paths, e \in Entries :
          b \in Watched(r) /\ ExternalWrite(b, p, e)
    \/ \E r \in Managed : PlanCreate(r)
    \/ \E r \in Managed : PlanUpdate(r)
    \/ \E r \in Managed : Destroy(r)
    \/ \E r \in Managed : Read(r)
    \/ \E r \in Managed : ReadEnd(r)
    \/ \E r \in Managed : Attempt(r)
    \/ \E r \in Managed : Clone(r)
    \/ \E r \in Managed : PushOk(r)
    \/ \E r \in Managed : PushEnd(r)
    \/ \E r \in Managed : PushFail(r)
    \/ \E r \in Managed : Retry(r)
    \/ \E r \in Managed : Timeout(r)
    \/ \E r \in Managed : Ack(r)

FairSpec == FairInit /\ [][FairNext]_vars /\ \A r \in Managed : WF_vars(Step(r))

----
(***************************************************************************)
(* The lifecycle with the provider's ignore_updates switch and contents    *)
(* that are unknown at plan time.                                          *)
(***************************************************************************)
FreezeInit ==
    /\ InitWith({p \in ProviderConfigs : p.scheme = "https" /\ p.branch = ""},
                {c \in ResourceConfigs : IsNull(c.branch)})

FreezeNext ==
    \/ \E r \in Managed, b \in Branches, p \in Paths, e \in Entries :
          b \in Watched(r) /\ ExternalWrite(b, p, e)
    \/ \E r \in Managed, c \in KnownContents \cup {UnknownStr}, o \in BOOLEAN : SetConfig(r, c, o)
    \/ \E i \in BOOLEAN : Configure(i)
    \/ \E r \in Managed : PlanCreate(r)
    \/ \E r \in Managed : PlanUpdate(r)
    \/ \E r \in Managed : Destroy(r)
    \/ \E r \in Managed : Read(r)
    \/ \E r \in Managed : ReadEnd(r)
    \/ \E r \in Managed : Attempt(r)
    \/ \E r \in Managed : Clone(r)
    \/ \E r \in Managed : PushOk(r)
    \/ \E r \in Managed : PushEnd(r)
    \/ \E r \in Managed : PushFail(r)
    \/ \E r \in Managed : Retry(r)
    \/ \E r \in Managed : Timeout(r)
    \/ \E r \in Managed : Ack(r)

FreezeSpec == FreezeInit /\ [][FreezeNext]_vars

----
(***************************************************************************)
(* The plan modifier alone, on every input.                                *)
(***************************************************************************)
StateValues == {NullStr} \cup KnownContents
ConfigValues == {UnknownStr} \cup KnownContents
Flags == {"", "true", "false", "TRUE", "True", "tRuE", "truest"}

\* One call of PlanModifyString: the plan value of a required attribute is
\* its configuration value on entry.
Decide(sv, cv, flag) ==
    /\ plan' = [state |-> sv, config |-> cv, flag |-> flag,
                content |-> PlanModifyString(sv, cv, cv, flag)]
    /\ UNCHANGED <<remote, prd, config, state, private, imported, auth, tmp, op, build>>

DecideNext == \E sv \in StateValues, cv \in ConfigValues, flag \in Flags : Decide(sv, cv, flag)

DecideSpec == FairInit /\ [][DecideNext]_vars

----
(***************************************************************************)
(* The auth resolver alone, on every scheme and every pair of blocks.      *)
(***************************************************************************)
Schemes == {"http", "https", "ssh", "git", "file", ""}
HttpBlocks == {NilHttp, HttpBlock("user", "pass", "ca"), HttpBlock("", "", "")}
SshBlocks == {NilSsh, SshBlock("git", "", ""), SshBlock("git", "pw", "key")}

\* One call of getAuthOpts(u, h, s).
Resolve(scheme, h, s, scanFails) ==
    /\ auth' = [called |-> TRUE, scheme |-> scheme, h |-> h, s |-> s,
                out |-> getAuthOpts(scheme, h, s, scanFails)]
    /\ UNCHANGED <<remote, prd, config, state, private, plan, imported, tmp, op, build>>

AuthNext ==
    \E scheme \in Schemes, h \in HttpBlocks, s \in SshBlocks, scanFails \in BOOLEAN :
        Resolve(scheme, h, s, scanFails)

AuthSpec == FairInit /\ [][AuthNext]_vars

----
(***************************************************************************)
(* The lifecycle with import, in a repository that also holds a file whose *)
(* name has a colon.                                                       *)
(***************************************************************************)
ImportPaths == Paths \cup {"b:c"}
ImportIds == {"main:README.md", ":README.md", "dev:README.md", "README.md", "main:", "main:b:c"}

\* What other writers do here: anything to the managed path on main, a file
\* with a colon in its name on main, a file at the managed path on dev.
ImportWrites ==
    ({"main"} \X Paths \X Entries)
    \cup ({"main"} \X (ImportPaths \ Paths) \X {Absent, File("a")})
    \cup ({"dev"} \X Paths \X {Absent, File("b")})

ImportInit ==
    /\ remote = [b \in Branches |-> [p \in ImportPaths |-> Absent]]
    /\ prd \in {p \in ProviderConfigs : p.scheme = "https" /\ p.branch = ""}
    /\ build \in Builds
    /\ \E c \in {x \in ResourceConfigs : IsNull(x.branch) /\ ~x.override} :
          config = [r \in Instances |-> c]
    /\ state = [r \in Instances |-> NoState]
    /\ private = [r \in Instances |-> ""]
    /\ plan = NoPlan
    /\ imported = NoImport
    /\ auth = NoAuthCall
    /\ tmp = NoTmp
    /\ op = [r \in Instances |-> IdleOp]

ImportNext ==
    \/ \E w \in ImportWrites : ExternalWrite(w[1], w[2], w[3])
    \/ \E r \in Managed, id \in ImportIds : Import(r, id)
    \/ \E r \in Managed : ImportEnd(r)
    \/ \E r \in Managed, c \in KnownContents, o \in BOOLEAN : SetConfig(r, c, o)
    \/ \E r \in Managed : PlanCreate(r)
    \/ \E r \in Managed : PlanUpdate(r)
    \/ \E r \in Managed : PlanReplace(r)
    \/ \E r \in Managed : Destroy(r)
    \/ \E r \in Managed : Read(r)
    \/ \E r \in Managed : ReadEnd(r)
    \/ \E r \in Managed : Attempt(r)
    \/ \E r \in Managed : Clone(r)
    \/ \E r \in Managed : PushOk(r)
    \/ \E r \in Managed : PushEnd(r)
    \/ \E r \in Managed : PushFail(r)
    \/ \E r \in Managed : Retry(r)
    \/ \E r \in Managed : Timeout(r)
    \/ \E r \in Managed : Ack(r)

ImportSpec == ImportInit /\ [][ImportNext]_vars

----
(***************************************************************************)
(* The same lifecycle where an entry point that returned success is called *)
(* a second time with the request it has just served, before anybody else  *)
(* writes to the repository.  The record of the second call has after =     *)
(* "again".                                                                *)
(***************************************************************************)
AgainInit ==
    /\ remote = [b \in Branches |-> [p \in ImportPaths |-> Absent]]
    /\ prd \in {p \in ProviderConfigs : p.scheme = "https" /\ p.branch = ""}
    /\ build \in Builds
    /\ \E c \in {x \in ResourceConfigs : IsNull(x.branch)} :
          config = [r \in Instances |-> c]
    /\ state = [r \in Instances |-> NoState]
    /\ private = [r \in Instances |-> ""]
    /\ plan = NoPlan
    /\ imported = NoImport
    /\ auth = NoAuthCall
    /\ tmp = NoTmp
    /\ op = [r \in Instances |-> IdleOp]

Again(r) ==
    /\ op[r].pc = "done" /\ op[r].ok /\ ~op[r].stale
    /\ op[r].after # "again"
    /\ Room(tmp)
    /\ \/ /\ op[r].kind \in {"Create", "Update", "Delete"}
          /\ op' = [op EXCEPT ![r] = [StartOp(r, op[r].kind, op[r].data) EXCEPT !.after = "again"]]
          /\ UNCHANGED <<state, private, imported, tmp>>
       \/ /\ op[r].kind = "Read"
          /\ ReadCall(r, "again")
          /\ UNCHANGED imported
       \/ /\ op[r].kind = "Import"
          /\ ImportCall(r, imported.req, "again")
          /\ UNCHANGED private
    /\ UNCHANGED <<remote, prd, config, plan, auth, build>>

AgainNext ==
    \/ \E w \in ImportWrites : ExternalWrite(w[1], w[2], w[3])
    \/ \E r \in Managed, id \in ImportIds : Import(r, id)
    \/ \E r \in Managed : ImportEnd(r)
    \/ \E r \in Managed : Again(r)
    \/ \E r \in Managed : PlanCreate(r)
    \/ \E r \in Managed : PlanUpdate(r)
    \/ \E r \in Managed : PlanReplace(r)
    \/ \E r \in Managed : Destroy(r)
    \/ \E r \in Managed : Read(r)
    \/ \E r \in Managed : ReadEnd(r)
    \/ \E r \in Managed : Attempt(r)
    \/ \E r \in Managed : Clone(r)
    \/ \E r \in Managed : PushOk(r)
    \/ \E r \in Managed : PushEnd(r)
    \/ \E r \in Managed : PushFail(r)
    \/ \E r \in Managed : Retry(r)
    \/ \E r \in Managed : Timeout(r)
    \/ \E r \in Managed : Ack(r)

AgainSpec == AgainInit /\ [][AgainNext]_vars

----
(***************************************************************************)
(* Two resource instances of one provider, each running one Create, Update *)
(* or Delete against the same branch at the same time, with the temporary  *)
(* directory watched.  The instances manage the same path or two different *)
(* paths; what is in the repository at the start was put there by earlier  *)
(* operations of the instances.                                            *)
(***************************************************************************)
RacePaths == Paths \cup {"LICENSE"}

\* The identifiers imported here name main, the branch every other session
\* clones, or no branch.
RaceIds == {"main:README.md", "README.md"}

\* What an instance with the configuration c knows of a path that is e:
\* nothing yet, or the file as it is.
KnownOf(c, e) ==
    {NoState} \cup
    (IF e.kind = "file"
     THEN {[null |-> FALSE, id |-> c.path, branch |-> c.branch, path |-> c.path,
            content |-> e.content, override |-> c.override]}
     ELSE {})

RaceInit ==
    /\ prd \in {p \in ProviderConfigs : p.scheme = "https" /\ p.branch = ""}
    /\ \E c1 \in {c \in ResourceConfigs : IsNull(c.branch)}, p2 \in RacePaths, o2 \in BOOLEAN :
          config = [r \in Instances |->
                       IF r = "r1" THEN c1
                       ELSE [branch |-> NullStr, path |-> p2, content |-> Str("b"), override |-> o2]]
    /\ build \in BuildsOf(prd, config["r1"])
    /\ \E tree \in [RacePaths -> {Absent, File("a")}] :
          /\ remote = [b \in Branches |-> tree]
          /\ state \in [Instances -> {NoState} \cup UNION {KnownOf(config[r], tree[config[r].path])
                                                            : r \in Instances}]
          /\ \A r \in Instances : state[r] \in KnownOf(config[r], tree[config[r].path])
    /\ private = [r \in Instances |-> ""]
    /\ plan = NoPlan
    /\ imported = NoImport
    /\ auth = NoAuthCall
    /\ tmp = [NoTmp EXCEPT !.watched = TRUE]
    /\ op = [r \in Instances |-> IdleOp]

RaceNext ==
    \/ \E r \in Instances : PlanCreate(r)
    \/ \E r \in Instances : PlanUpdate(r)
    \/ \E r \in Instances : Destroy(r)
    \/ \E r \in Instances : Read(r)
    \/ \E r \in Instances : ReadEnd(r)
    \/ \E r \in Instances, id \in RaceIds : Import(r, id)
    \/ \E r \in Instances : ImportEnd(r)
    \/ \E r \in Instances : Attempt(r)
    \/ \E r \in Instances : Clone(r)
    \/ \E r \in Instances : PushOk(r)
    \/ \E r \in Instances : PushEnd(r)
    \/ \E r \in Instances : PushFail(r)
    \/ \E r \in Instances : Retry(r)
    \/ \E r \in Instances : Timeout(r)

RaceSpec == RaceInit /\ [][RaceNext]_vars

----
(***************************************************************************)
(* The lifecycle of one instance, one operation after the other, with the  *)
(* temporary directory watched.                                            *)
(***************************************************************************)
WorkInit ==
    /\ remote = [b \in Branches |-> EmptyTree]
    /\ prd \in {p \in ProviderConfigs : p.scheme = "https" /\ p.branch = ""}
    /\ \E c \in {x \in ResourceConfigs : IsNull(x.branch)} :
          config = [r \in Instances |-> c]
    /\ build \in BuildsOf(prd, config["r1"])
    /\ state = [r \in Instances |-> NoState]
    /\ private = [r \in Instances |-> ""]
    /\ plan = NoPlan
    /\ imported = NoImport
    /\ auth = NoAuthCall
    /\ tmp = [NoTmp EXCEPT !.watched = TRUE]
    /\ op = [r \in Instances |-> IdleOp]

WorkSpec == WorkInit /\ [][Next]_vars

----
(***************************************************************************)
(* The lifecycle with import for every combination of the provider-level   *)
(* and the resource-level branch, in a repository whose two branches hold  *)
(* different files and where nobody else writes.                           *)
(***************************************************************************)
BranchIds == {"main:README.md", "dev:README.md", ":README.md"}

BranchInit ==
    /\ \E m \in {Absent, File("a")}, d \in {Absent, File("b")} :
          remote = [b \in Branches |-> [p \in Paths |-> IF b = "main" THEN m ELSE d]]
    /\ prd \in {p \in ProviderConfigs : p.scheme = "https"}
    /\ build \in Builds
    /\ \E c \in ResourceConfigs : config = [r \in Instances |-> c]
    /\ state = [r \in Instances |-> NoState]
    /\ private = [r \in Instances |-> ""]
    /\ plan = NoPlan
    /\ imported = NoImport
    /\ auth = NoAuthCall
    /\ tmp = NoTmp
    /\ op = [r \in Instances |-> IdleOp]

BranchNext ==
    \/ \E r \in Managed, id \in BranchIds : Import(r, id)
    \/ \E r \in Managed : ImportEnd(r)
    \/ \E r \in Managed : PlanCreate(r)
    \/ \E r \in Managed : PlanUpdate(r)
    \/ \E r \in Managed : PlanReplace(r)
    \/ \E r \in Managed : Destroy(r)
    \/ \E r \in Managed : Read(r)
    \/ \E r \in Managed : ReadEnd(r)
    \/ \E r \in Managed : Attempt(r)
    \/ \E r \in Managed : Clone(r)
    \/ \E r \in Managed : PushOk(r)
    \/ \E r \in Managed : PushEnd(r)
    \/ \E r \in Managed : PushFail(r)
    \/ \E r \in Managed : Retry(r)
    \/ \E r \in Managed : Timeout(r)
    \/ \E r \in Managed : Ack(r)

BranchSpec == BranchInit /\ [][BranchNext]_vars

----
(***************************************************************************)
(* Properties.                                                             *)
(***************************************************************************)
CUD == {"Create", "Update", "Delete"}
SessionErrors == {"parse failed", "mkdir temp failed", "could not create git client",
                  "clone failed", "scan host key failed", "panic",
                  "ssh scheme cannot be used without private key", "scheme is not supported"}

\* The step is a Read of instance r.
ReadStep(r) == op[r].pc \in {"idle", "clone"} /\ op'[r].pc = "done" /\ op'[r].kind = "Read"

\* The branch the Create, Update or Delete in the record o works on.
BranchOf(o) == ClonedBranch(prd, OpBranch(prd, o.data))

Conflict(r) ==
    /\ op[r].pc = "clone" /\ op'[r].kind = "Create"
    /\ op'[r].probe \in {"file", "dir"} /\ ~op'[r].data.override

\* C2: a Create that finds the path (a file or a directory) in its clone and
\* has override_on_create false ends at once with "cannot override existing
\* file": this call of the closure made no commit and no push, no push of
\* the operation succeeded, the step leaves the remote (where the path is
\* what the clone saw) and the state as they were, and no state is written.
C2NoOverride ==
    /\ [](\A r \in Managed :
            (op[r].kind = "Create" /\ op[r].probe \in {"file", "dir"} /\ ~op[r].data.override)
            => /\ op[r].pc = "done" /\ ~op[r].ok
               /\ op[r].err = "cannot override existing file"
               /\ op[r].errAt = op[r].attempts
               /\ ~op[r].pushed /\ ~op[r].removed
               /\ op[r].pushes = op[r].attempts - 1
               /\ state[r].null)
    /\ [][\A r \in Managed :
            Conflict(r)
            => /\ remote' = remote /\ state' = state
               /\ remote'[BranchOf(op'[r])][op'[r].data.path].kind = op'[r].probe]_vars

\* The override conflict happened with the existing content equal to the
\* declared one.
C2Witness ==
    \E r \in Managed :
        /\ op[r].kind = "Create" /\ op[r].pc = "done" /\ op[r].probe = "file"
        /\ ~op[r].data.override
        /\ op[r].err = "cannot override existing file"
        /\ remote[BranchOf(op[r])][op[r].data.path] = File(op[r].data.content)

TimedOut(r) == op[r].kind \in CUD /\ op[r].pc = "done" /\ op[r].err \in PushErrors

C6Classification ==
    \A r \in Managed :
        op[r].kind \in CUD
        => /\ (op[r].pc = "retry" => op[r].err \in PushErrors)
           /\ (op[r].pc = "done" /\ ~op[r].ok
                  /\ op[r].err \notin PushErrors \cup {DeadlineExceeded}
                 => op[r].errAt = op[r].attempts /\ op[r].failed = op[r].attempts - 1)
           /\ (op[r].pc = "done" /\ op[r].kind \in {"Update", "Delete"}
                  /\ op[r].probe \in {"dir", "enotdir"}
                 => ~op[r].ok /\ op[r].err \notin PushErrors \cup {"panic"})

\* C7: no partial success.  The observed state changes only in the step in
\* which a handler returns success, for Create and Update after a push of
\* the operation succeeded; a handler that reports an error has pushed
\* nothing and its last step leaves the state and the remote as they were.
C7NoPartialSuccess ==
    /\ [](\A r \in Managed : (op[r].pc = "done" /\ ~op[r].ok) => ~op[r].pushed)
    /\ [][\A r \in Managed :
            /\ (state'[r] # state[r]
                  => /\ op'[r].pc = "done" /\ op'[r].ok /\ op[r].pc # "done"
                     /\ (op'[r].kind \in {"Create", "Update"} => op'[r].pushed))
            /\ (op[r].pc # "done" /\ op'[r].pc = "done" /\ ~op'[r].ok
                  => state'[r] = state[r] /\ remote' = remote)
            /\ (remote' # remote /\ Running(r)
                  => \/ op'[r].pushed /\ op[r].pc = "push"
                     \/ op'[r].pc = op[r].pc)]_vars

\* C8: a Read with the provider's ignore_updates true opens no session (no
\* auth resolution, no clone, no workspace), reports no error, leaves the
\* observed state and the remote as they were, whatever the remote holds,
\* and persists the IgnoreUpdates flag as "true".
C8ReadIgnoreUpdates ==
    /\ [](\A r \in Managed :
            (op[r].kind = "Read" /\ op[r].pc = "done" /\ prd.ignore_updates)
            => /\ op[r].ok /\ op[r].err = ""
               /\ op[r].sessions = 0 /\ op[r].probe = ""
               /\ private[r] = "true")
    /\ [][\A r \in Managed :
            (ReadStep(r) /\ prd.ignore_updates)
            => state' = state /\ remote' = remote /\ private'[r] = "true"]_vars

\* A Read with ignore_updates true returned while the file in the remote is
\* not the observed one.
C8Witness ==
    \E r \in Managed :
        /\ op[r].kind = "Read" /\ op[r].pc = "done" /\ prd.ignore_updates
        /\ op[r].sessions = 0 /\ private[r] = "true"
        /\ remote[ClonedBranch(prd, ValueString(state[r].branch))][state[r].id] \in
              {File(c) : c \in Contents \ {state[r].content}}

\* The persisted flags that read as true.
TrueFlags == {"true", "TRUE", "True", "tRuE"}

\* C9: the drift-freeze decision.  The planned content is the prior value
\* exactly when the prior is not null, the proposed value is known, the flag
\* is true and the prior differs from the proposed value; in every other
\* case it is the proposed value.
C9Decision ==
    plan # NoPlan
    => plan.content =
          IF /\ ~IsNull(plan.state)
             /\ ~IsUnknown(plan.config)
             /\ plan.flag \in TrueFlags
             /\ plan.state # plan.config
          THEN plan.state
          ELSE plan.config

\* The decision replaced a proposed content by a different prior one.
C9Witness ==
    /\ plan # NoPlan
    /\ ~IsNull(plan.state) /\ ~IsUnknown(plan.config)
    /\ plan.flag = "true"
    /\ plan.config # plan.state
    /\ plan.content = plan.state

\* The resource of r exists, its flag is persisted as "true" and the
\* provider's ignore_updates is true.
Frozen(r) == ~state[r].null /\ private[r] = "true" /\ prd.ignore_updates

\* C10 as stated: while frozen, whatever the declared content becomes, the
\* observed content keeps its value, the planned content is the observed
\* one and an Update carries the observed content.
C10FreezeAnyConfig ==
    /\ [](\A r \in Managed :
            Frozen(r)
            => /\ PlannedContent(r) = Str(state[r].content)
               /\ (op[r].kind = "Update" /\ op[r].pc # "idle"
                     => op[r].data.content = state[r].content))
    /\ [][\A r \in Managed :
            (Frozen(r) /\ ~state'[r].null) => state'[r].content = state[r].content]_vars

\* C10: freeze over time.  While frozen, external changes of the file,
\* changes of the declared content, Reads and plans leave the observed
\* content as it was and an Update pushes no other content; the planned
\* content is the observed one when the declared content is known at plan
\* time (a content that is unknown then is planned as unknown, and is the
\* observed one in the plan that is applied).
C10Freeze ==
    /\ [](\A r \in Managed :
            Frozen(r)
            => /\ (~IsUnknown(config[r].content)
                     => PlannedContent(r) = Str(state[r].content))
               /\ \A c \in Contents : AppliedContent(r, c) = state[r].content
               /\ (op[r].kind = "Update" /\ op[r].pc # "idle"
                     => op[r].data.content = state[r].content))
    /\ [][\A r \in Managed :
            (Frozen(r) /\ ~state'[r].null) => state'[r].content = state[r].content]_vars

\* While frozen, with another content declared and another content in the
\* remote, an Update pushed the observed content.
C10Witness ==
    \E r \in Managed :
        /\ Frozen(r)
        /\ op[r].kind = "Update" /\ op[r].pc = "done" /\ op[r].ok /\ op[r].pushed
        /\ config[r].content # Str(state[r].content)
        /\ remote[BranchOf(op[r])][state[r].path] = File(state[r].content)

\* C11 as stated: once the flag of an instance is persisted as "true", it is
\* "true" after every later step for as long as the resource exists.
C11StickyAlways ==
    [][\A r \in Managed :
          (private[r] = "true" /\ ~state'[r].null) => private'[r] = "true"]_vars

\* C11: the IgnoreUpdates flag is sticky while the provider's ignore_updates
\* stays true.  Once persisted as "true" it is "true" after every later Read,
\* plan and apply for as long as the resource exists and ignore_updates is
\* true; only a Read with ignore_updates false replaces it, by "false".
C11Sticky ==
    [][\A r \in Managed :
          /\ (private[r] = "true" /\ prd.ignore_updates /\ ~state'[r].null)
                => private'[r] = "true"
          /\ (private[r] = "true" /\ private'[r] # "true" /\ ~state'[r].null)
                => ReadStep(r) /\ ~prd.ignore_updates /\ private'[r] = "false"]_vars

\* The flag is still "true" when an Update planned after it was persisted
\* has been applied.
C11Witness ==
    \E r \in Managed :
        /\ private[r] = "true" /\ prd.ignore_updates
        /\ op[r].kind = "Update" /\ op[r].pc = "done" /\ op[r].ok
        /\ op[r].attempts = 2

\* C12: Update never creates.  An Update whose clone does not hold the path
\* ends in that call of the closure with "File Doesn't Exist": no commit, no
\* push in that call and no successful push at all; the step leaves the
\* remote, still without the file, and the state as they were.
C12UpdateNeverCreates ==
    /\ [](\A r \in Managed :
            (op[r].kind = "Update" /\ op[r].probe = "absent")
            => /\ op[r].pc = "done" /\ ~op[r].ok
               /\ op[r].err = "File Doesn't Exist"
               /\ op[r].errAt = op[r].attempts
               /\ ~op[r].pushed
               /\ op[r].pushes = op[r].attempts - 1)
    /\ [][\A r \in Managed :
            (op'[r].kind = "Update" /\ op'[r].probe = "absent" /\ op[r].pc # "done")
            => /\ state' = state /\ remote' = remote
               /\ remote'[BranchOf(op'[r])][op'[r].data.path] = Absent]_vars

\* An Update found the file of an existing resource gone.
C12Witness ==
    \E r \in Managed :
        /\ op[r].kind = "Update" /\ op[r].pc = "done" /\ op[r].probe = "absent"
        /\ op[r].err = "File Doesn't Exist"
        /\ ~state[r].null /\ state[r].content # op[r].data.content

\* C13: a Read with ignore_updates false that finds the file absent in the
\* branch it cloned reports no error and returns the resource with its
\* identifier cleared (or removed).
C13ReadClearsId ==
    \A r \in Managed :
        (op[r].kind = "Read" /\ op[r].pc = "done" /\ op[r].probe = "absent")
        => /\ op[r].ok /\ op[r].err = ""
           /\ (state[r].null \/ state[r].id = "")

\* C14: a path that is a directory is a permanent error at every call site
\* of the existence probe.  A Read, Update or Delete whose clone holds a
\* directory at the path reports an error in that call and is never a
\* success.
C14DirectoryIsError ==
    \A r \in Managed :
        (op[r].kind \in {"Read", "Update", "Delete"} /\ op[r].pc = "done" /\ op[r].probe = "dir")
        => /\ ~op[r].ok
           /\ op[r].err \notin {"", "panic"}
           /\ op[r].errAt = op[r].attempts

\* The identifiers with exactly one colon, and what they name.
OneColonIds == {[id |-> "main:README.md", branch |-> "main", path |-> "README.md"],
                [id |-> "dev:README.md", branch |-> "dev", path |-> "README.md"],
                [id |-> ":README.md", branch |-> "", path |-> "README.md"]}

\* The branch an import from branch b reads: main when b is empty.
ImportBranch(b) == IF b = "" THEN "main" ELSE b

\* The step is an Import of instance r.
ImportStep(r) == op[r].pc \in {"idle", "clone"} /\ op'[r].pc = "done" /\ op'[r].kind = "Import"

\* C15: import parsing.  An Import of branch:path (one colon) whose file
\* exists on that branch, whose session opens and whose file is read
\* succeeds with branch the
\* part before the colon, id and path the part after it, the content of the
\* file on that branch, override_on_create true and the default author name
\* and message; an Import of an identifier without a colon fails with
\* "Expected id to have format branch:path" and sets no state.
C15ImportParsing ==
    [][\A r \in Managed :
          ImportStep(r)
          => /\ \A x \in OneColonIds :
                  (/\ imported'.req = x.id
                   /\ remote[ImportBranch(x.branch)][x.path].kind = "file"
                   /\ op'[r].err \notin {"Git Client Error", "Error Reading File"})
                  => /\ op'[r].ok /\ imported'.set
                     /\ imported'.branch = Str(x.branch)
                     /\ imported'.id = x.path /\ imported'.path = x.path
                     /\ imported'.content = remote[ImportBranch(x.branch)][x.path].content
                     /\ imported'.override_on_create
                     /\ imported'.author_name = "Terraform Provider Git"
                     /\ imported'.message = "Write file with Terraform Provider Git."
                     /\ state'[r] = [null |-> FALSE, id |-> x.path, branch |-> Str(x.branch),
                                     path |-> x.path, content |-> imported'.content,
                                     override |-> TRUE]
             /\ imported'.req = "README.md"
                  => /\ ~op'[r].ok
                     /\ op'[r].err = "Expected id to have format branch:path"
                     /\ ~imported'.set /\ state'[r].null]_vars

\* C16: an import identifier with two or more colons is malformed.  An
\* Import of main:b:c fails with "Expected id to have format branch:path"
\* and imports nothing (whatever its environment does: a failure of the
\* session or of the read is left aside).
C16ExactlyOneColon ==
    \A r \in Managed :
        (/\ op[r].kind = "Import" /\ op[r].pc = "done" /\ imported.req = "main:b:c"
         /\ op[r].err \notin {"Git Client Error", "Error Reading File"})
        => /\ ~op[r].ok
           /\ op[r].err = "Expected id to have format branch:path"
           /\ ~imported.set /\ state[r].null

\* C17: in every state, after any sequence of Create, Import, Read, Update
\* and Delete, the observed id of a resource that exists is its observed
\* path.
C17IdIsPath ==
    \A r \in Managed : ~state[r].null => state[r].id = state[r].path

\* An Update succeeded right after the Create of the resource: its id is
\* still its path.
C17Witness ==
    \E r \in Managed :
        /\ op[r].kind = "Update" /\ op[r].pc = "done" /\ op[r].ok
        /\ op[r].after = "Create" /\ ~state[r].null
        /\ state[r].id = "README.md" /\ state[r].path = "README.md"

\* C18: the auth resolver by scheme.  "ssh" with a declared block and an
\* empty private key fails with "ssh scheme cannot be used without private
\* key" without a host-key scan; "http" and "https" with a declared http
\* block return that block's username and password (and the CA text for
\* https) without a host-key scan; any other scheme fails with "scheme is
\* not supported".
C18AuthByScheme ==
    auth.called
    => /\ (auth.scheme = "ssh" /\ ~auth.s.nil /\ auth.s.private_key = "")
            => /\ auth.out.err = "ssh scheme cannot be used without private key"
               /\ ~auth.out.panic /\ ~auth.out.scanned
               /\ auth.out.opts = NoAuthOptions
       /\ (auth.scheme \in {"http", "https"} /\ ~auth.h.nil)
            => /\ auth.out.err = "" /\ ~auth.out.panic /\ ~auth.out.scanned
               /\ auth.out.opts.transport = auth.scheme
               /\ auth.out.opts.username = auth.h.username
               /\ auth.out.opts.password = auth.h.password
               /\ (auth.scheme = "https"
                     => auth.out.opts.ca_file = auth.h.certificate_authority)
       /\ auth.scheme \notin {"http", "https", "ssh"}
            => /\ auth.out.err = "scheme is not supported"
               /\ ~auth.out.panic /\ ~auth.out.scanned
               /\ auth.out.opts = NoAuthOptions

\* https with a declared http block gave credentials with its CA text,
\* while an ssh block with a key is declared too.
C18Witness ==
    /\ auth.called /\ auth.scheme = "https"
    /\ auth.h = HttpBlock("user", "pass", "ca")
    /\ auth.s.private_key = "key"
    /\ auth.out.opts.ca_file = "ca" /\ auth.out.opts.username = "user"
    /\ ~auth.out.scanned

\* C19: the auth resolver with a missing credential block.  "http" or
\* "https" without an http block, and "ssh" without an ssh block, return an
\* error to the caller and do not crash.
C19MissingBlockIsError ==
    (/\ auth.called
     /\ \/ auth.scheme \in {"http", "https"} /\ auth.h.nil
        \/ auth.scheme = "ssh" /\ auth.s.nil)
    => ~auth.out.panic /\ auth.out.err # ""

\* The errors that come from the environment of a call (the session, the
\* file system, the commit, the push, the deadline), not from its inputs.
EnvErrors ==
    SessionErrors \cup PushErrors
        \cup {"Git Client Error", "Error Reading File", "commit failed", "remove failed",
              DeadlineExceeded}

\* The operation of r is the second call of an entry point with the same
\* inputs, right after the first one succeeded.
SecondRun(r) == op[r].after = "again"

\* C20 as stated: each of Create, Read, Update, Delete and Import, called a
\* second time with the same inputs right after it succeeded, succeeds
\* again unless its environment fails, and leaves the remote and the
\* observed state as they were.
C20AllIdempotent ==
    /\ [](\A r \in Managed :
            (SecondRun(r) /\ op[r].pc = "done" /\ op[r].err \notin EnvErrors) => op[r].ok)
    /\ [][\A r \in Managed :
            SecondRun(r)' => state' = state /\ remote' = remote]_vars

\* C20: Read, Update, Delete and Import, and Create with override_on_create
\* true, are idempotent: called a second time with the same inputs right
\* after they succeeded, they succeed again (unless the environment fails:
\* the session, the read, the commit, the push).  A second Create with
\* override_on_create false does not succeed: it finds the file the first
\* one wrote ("cannot override existing file").  Every second call leaves
\* the remote and the observed state as they were.
C20Idempotent ==
    /\ [](\A r \in Managed :
            (SecondRun(r) /\ op[r].pc = "done" /\ op[r].err \notin EnvErrors)
            => IF op[r].kind = "Create" /\ ~op[r].data.override
               THEN ~op[r].ok /\ op[r].err = "cannot override existing file"
               ELSE op[r].ok /\ op[r].err = "")
    /\ [][\A r \in Managed :
            SecondRun(r)' => state' = state /\ remote' = remote /\ private' = private]_vars

\* A second Create with override_on_create true has pushed and succeeded;
\* the file and the state are those of the first Create.
C20Witness ==
    \E r \in Managed :
        /\ SecondRun(r) /\ op[r].kind = "Create" /\ op[r].pc = "done"
        /\ op[r].data.override /\ op[r].ok /\ op[r].pushed
        /\ ~state[r].null /\ state[r].content = op[r].data.content
        /\ remote[BranchOf(op[r])][op[r].data.path] = File(op[r].data.content)

\* C21: each Create, Update or Delete obtains its session exactly once, also
\* when the push is retried: an operation opens at most one session and
\* creates at most one workspace, however many of its pushes failed.
C21OneSession ==
    \A r \in Managed :
        op[r].kind \in CUD => op[r].sessions <= 1

\* The branch and the path the session of the operation in the record o is
\* opened for and looks at.
SessionBranch(o) == o.cloned
SessionPath(o) == IF o.kind \in CUD THEN o.data.path ELSE o.data.id

\* The step opens a session for instance r and makes its workspace.
Opens(r) ==
    \/ Running(r) /\ op'[r].sessions = op[r].sessions + 1
    \/ Idle(r) /\ op'[r].sessions = 1

\* The step is the clone of the session of instance r.
Clones(r) ==
    /\ op[r].pc = "clone" /\ op'[r].pc # "clone"
    /\ ~(op'[r].pc = "done" /\ op'[r].err \in PushErrors \cup {DeadlineExceeded})

\* C22: a session is never reused.  Every session open makes one workspace
\* whose name no workspace made before has, and its clone is of the branch
\* as it is at the moment of the clone; the workspace of a running operation
\* that waits for its clone or holds its commit exists and no other
\* operation holds it.
C22NeverReused ==
    /\ [][\A r \in Instances :
            /\ Opens(r)
                  => /\ Len(tmp'.made) = Len(tmp.made) + 1
                     /\ SubSeq(tmp'.made, 1, Len(tmp.made)) = tmp.made
                     /\ \A i \in 1..Len(tmp.made) : tmp.made[i] # tmp'.made[Len(tmp'.made)]
                     /\ (op'[r].pc = "clone" => op'[r].ws = tmp'.made[Len(tmp'.made)])
            /\ Clones(r)
                  => /\ (op'[r].pc = "push" => op'[r].ws = op[r].ws)
                     /\ (op'[r].err \notin SessionErrors \cup {"Git Client Error"}
                           => op'[r].probe = Lookup(remote[SessionBranch(op'[r])],
                                                    SessionPath(op'[r])).kind)]_vars
    /\ [](\A r \in Instances :
            op[r].pc \in {"clone", "push"}
            => /\ op[r].ws \in tmp.live
               /\ \A q \in Instances \ {r} : op[q].ws # op[r].ws)

\* Two operations hold a commit each at the same time, one of them in the
\* session it opened after the other writer made its first push fail.
C22Witness ==
    /\ op["r1"].pc = "push" /\ op["r2"].pc = "push"
    /\ op["r1"].attempts = 2 /\ op["r1"].sessions = 2
    /\ Len(tmp.made) = 3

\* C23: workspaces are never removed.  No step, the exits of the handlers
\* (success, permanent error, deadline) included, removes a workspace: a
\* step adds one workspace per session open it makes and nothing else, and
\* as many workspaces exist as were made.
C23NeverRemoved ==
    /\ [][/\ tmp.live \subseteq tmp'.live
          /\ Len(tmp'.made) = Len(tmp.made) + Cardinality({r \in Instances : Opens(r)})
          /\ Cardinality(tmp'.live) = Len(tmp'.made)]_vars
    /\ [](\A r \in Instances : op[r].ws # 0 => op[r].ws \in tmp.live)

\* An Update gave up at its deadline after a Create that succeeded: the
\* three workspaces of their sessions exist.
C23Witness ==
    /\ TimedOut("r1") /\ op["r1"].kind = "Update" /\ op["r1"].sessions = 2
    /\ ~state["r1"].null
    /\ Len(tmp.made) = 3 /\ Cardinality(tmp.live) = 3

\* What the Create, Update or Delete in the record o makes of its path.
Effect(o) == IF o.kind = "Delete" THEN Absent ELSE File(o.data.content)

\* Both instances run (or have run) a Create, Update or Delete, for two
\* different paths of one branch.
DifferentPaths ==
    /\ \A r \in Instances : op[r].kind \in CUD
    /\ op["r1"].data.path # op["r2"].data.path
    /\ BranchOf(op["r1"]) = BranchOf(op["r2"])

\* C24: operations on different paths do not interfere.  When two Create,
\* Update or Delete operations for different paths of one branch run
\* interleaved, the commits they hold are in two different workspaces, and
\* an operation that has reported success has its effect in the branch,
\* whatever the other one did before or after: once both have reported
\* success the branch holds the effect of both.
C24NoInterference ==
    DifferentPaths
    => \A r \in Instances :
          /\ (op[r].pc = "push"
                => op[r].ws # 0 /\ \A q \in Instances \ {r} : op[q].ws # op[r].ws)
          /\ (op[r].pc = "done" /\ op[r].ok
                => remote[BranchOf(op[r])][op[r].data.path] = Effect(op[r]))

\* A Create and a Delete for different paths have both reported success,
\* the Delete in the second session it opened, after its first push failed.
C24Witness ==
    /\ DifferentPaths
    /\ op["r1"].kind = "Create" /\ op["r1"].pc = "done" /\ op["r1"].ok
    /\ op["r2"].kind = "Delete" /\ op["r2"].pc = "done" /\ op["r2"].ok
    /\ op["r2"].pushed /\ op["r2"].failed = 1 /\ op["r2"].sessions = 2
    /\ remote["main"][op["r1"].data.path] = File(op["r1"].data.content)
    /\ remote["main"][op["r2"].data.path] = Absent

\* Both instances run (or have run) a Create of the same path of one branch
\* with override_on_create false.
SamePathCreates ==
    /\ \A r \in Instances : op[r].kind = "Create" /\ ~op[r].data.override
    /\ op["r1"].data.path = op["r2"].data.path
    /\ BranchOf(op["r1"]) = BranchOf(op["r2"])

\* C25: of two Create operations for the same path with override_on_create
\* false that run interleaved, at most one reports success, and from then on
\* the file in the branch has the content of the one that succeeded.
C25OneCreateWins ==
    SamePathCreates
    => /\ ~(\A r \in Instances : op[r].pc = "done" /\ op[r].ok)
       /\ \A r \in Instances :
             (op[r].pc = "done" /\ op[r].ok)
             => remote[BranchOf(op[r])][op[r].data.path] = File(op[r].data.content)

\* Both Creates cloned the branch without the file; the first one pushed, the
\* push of the second was rejected, and in its next session the second found
\* the file of the first and gave up.
C25Witness ==
    /\ SamePathCreates
    /\ op["r1"].pc = "done" /\ op["r1"].ok /\ op["r1"].attempts = 1
    /\ op["r2"].pc = "done" /\ ~op["r2"].ok /\ op["r2"].attempts = 2
    /\ op["r2"].failed = 1 /\ op["r2"].err = "cannot override existing file"
    /\ op["r1"].data.content # op["r2"].data.content
    /\ remote[BranchOf(op["r1"])][op["r1"].data.path] = File(op["r1"].data.content)

Malformed(r) == op[r].kind = "Import" /\ op[r].pc = "done" /\ ~Cut(imported.req).found

\* C27: an Import with an identifier without a colon fails before any
\* session is opened: it makes no workspace and no clone, looks at no path,
\* reports the malformed-identifier error and nothing else, and sets no
\* attribute and no state.
C27MalformedIdFailsEarly ==
    \A r \in Managed :
        Malformed(r)
        => /\ ~op[r].ok
           /\ op[r].err = "Expected id to have format branch:path"
           /\ op[r].sessions = 0 /\ op[r].probe = ""
           /\ ~imported.set
           /\ state[r].null

\* The import of "README.md" has returned.
C27Witness ==
    \E r \in Managed :
        /\ Malformed(r) /\ imported.req = "README.md"
        /\ remote["main"]["README.md"].kind = "file"

====
